---------------------------- MODULE Spec2Model ----------------------------
(***************************************************************************)
(* A model of the numerical core of RiemannRho (src/src/lib.rs):           *)
(*   find_zero   the bisection root finder,                                *)
(*   estimate_t  the fixed 20-step Newton estimator,                       *)
(*   derivative  the recursive central-difference differentiator,          *)
(*   z_func      the Riemann-Siegel evaluator (its control structure).     *)
(*                                                                         *)
(* Numbers.  An f64 bracket endpoint is modelled as an integer index on    *)
(* the grid of representable values of one binade (spacing 1).  The sum    *)
(* a + b of two such values lies in the next binade, whose spacing is 2,   *)
(* so (a + b) / 2.0 is (a + b) / 2 rounded to the grid, ties to even.      *)
(* b - a is exact.  tol is any f64 >= 0, far finer than the spacing at    *)
(* the bracket, so it is carried in units of 1/TolDen of the spacing.      *)
(* z_func is a pure function of (t, terms): inside one call of find_zero   *)
(* it is the table Z of its values at the grid points; only the sign of    *)
(* products of its values is ever read, so the values are small integers.  *)
(***************************************************************************)
EXTENDS Integers, Sequences, FiniteSets

\* ------------------------------------------------------------------ bounds
\* Grid points 1..MaxT are the representable ordinates of the bracket.
MaxT == 5
\* Tolerances 0..MaxTol, in units of 1/TolDen of the grid spacing.
MaxTol == 5
\* The iteration counter of find_zero saturates here (the loop has no cap).
IterCap == 4
\* derivative is tried on orders 0..MaxOrder, steps 1..MaxH, points 0..MaxX.
MaxOrder == 3
MaxH == 2
MaxX == 1
\* z_func is tried on the ordinates 1..MaxZT and on terms 0..MaxTerms.
MaxZT == 60
MaxTerms == 3
\* estimate_t is tried on the indices -MinHalfN / 2, ..., MaxN, in halves.
MinHalfN == 10
MaxN == 6

\* tol is measured in halves of the grid spacing.
TolDen == 2

Grid == 1..MaxT
ZVals == {-2, -1, 0, 1, 2}
SignVals == {-1, 0, 1}
Tols == 0..MaxTol

Min(p, q) == IF p <= q THEN p ELSE q
Max(p, q) == IF p >= q THEN p ELSE q
Abs(p) == IF p >= 0 THEN p ELSE -p

VARIABLES
  \* find_zero
  Z,        \* z_func(., terms) at the grid points
  a, b,     \* the current bracket (mut a, mut b)
  tol,      \* the tolerance, in 1/TolDen of the spacing
  za, zb,   \* the cached endpoint values
  pc,       \* "entry" | "loop" | "none" | "done"
  result,   \* the Option<f64> returned
  a0, b0,   \* the bracket find_zero was called with
  pa, pb,   \* the bracket at the start of the previous iteration
  iter,     \* non-returning iterations so far (saturating at IterCap)
  evals,    \* midpoints evaluated so far (saturating at IterCap + 1)
  exact,    \* every midpoint that replaced an endpoint was exactly (a + b) / 2
  \* estimate_t
  n,        \* the index, in 1/One
  t,        \* the running estimate: Fin(v) with v in 1/One, NaN or PosInf
  i,        \* the for loop's counter, 0..NewtonIters
  seeded,   \* the seed has been computed
  stalled,  \* some Newton update left t unchanged
  epc,      \* "call" | "loop" | "ret"
  eret,     \* the value returned
  \* derivative
  f,        \* the function differentiated, as its table at the sample points
  x, h,     \* the point of evaluation and the step
  ord,      \* the order n of the derivative
  dpc,      \* "call" | "ret"
  dret,     \* the value returned, an exact fraction num / den
  devals,   \* evaluations of f made by the call
  \* z_func
  zt,       \* the ordinate t
  zterms,   \* terms
  nu,       \* floor(sqrt(t / 2 pi))
  k,        \* the main sum's loop variable
  mainSum,  \* the k whose summand has been added, in order
  mainFactor, \* the factor applied to the main sum (sum *= 2.0)
  sign,     \* the sign of the correction terms
  corr,     \* the contributions added to r, in order
  dcalls,   \* the orders derivative was called with, in order
  zpc       \* "call" | "sum" | "c1" | "c2" | "ret"

fzVars == <<Z, a, b, tol, za, zb, pc, result, a0, b0, pa, pb, iter, evals, exact>>
etVars == <<n, t, i, seeded, stalled, epc, eret>>

dvVars == <<f, x, h, ord, dpc, dret, devals>>
zfVars == <<zt, zterms, nu, k, mainSum, mainFactor, sign, corr, dcalls, zpc>>

vars == <<fzVars, etVars, dvVars, zfVars>>

\* ------------------------------------------------------------ value shapes
\* Option<f64>
Pending == [tag |-> "Pending", val |-> 0]
None == [tag |-> "None", val |-> 0]
Some(v) == [tag |-> "Some", val |-> v]

\* f64: finite, NaN or +infinity
Fin(v) == [k |-> "fin", v |-> v]
NaN == [k |-> "nan", v |-> 0]
PosInf == [k |-> "inf", v |-> 0]

\* A component that is not running.
FzIdle ==
  /\ Z = [g \in Grid |-> 0]
  /\ a = 1 /\ b = 1 /\ tol = 1
  /\ za = 0 /\ zb = 0
  /\ pc = "idle"
  /\ result = Pending
  /\ a0 = 1 /\ b0 = 1 /\ pa = 1 /\ pb = 1
  /\ iter = 0 /\ evals = 0
  /\ exact = TRUE

EtIdle ==
  /\ n = 0 /\ t = Fin(0) /\ i = 0
  /\ seeded = FALSE /\ stalled = FALSE
  /\ epc = "idle" /\ eret = Fin(0)

DvIdle ==
  /\ f = <<>> /\ x = 0 /\ h = 1 /\ ord = 0
  /\ dpc = "idle" /\ dret = [num |-> 0, den |-> 1] /\ devals = 0

ZfIdle ==
  /\ zt = 1 /\ zterms = 0 /\ nu = 0 /\ k = 0
  /\ mainSum = <<>> /\ mainFactor = 1 /\ sign = 0
  /\ corr = <<>> /\ dcalls = <<>>
  /\ zpc = "idle"

\* -------------------------------------------------------------- estimate_t
\* Reals are fixed-point numbers, in units of 1/One; an f64 that is not
\* finite is NaN or PosInf.
One == 10 * 10 * 10
TwoPi == 6283
Ln2 == 693
SevenEighths == 875
NewtonIters == 20

\* ln on [One, 2 One): 2 (y + y^3 / 3 + y^5 / 5), y = (m - 1) / (m + 1).
LnSeries(m) ==
  LET y == ((m - One) * One) \div (m + One)
      y2 == (y * y) \div One
      y3 == (y2 * y) \div One
      y5 == (y3 * y2) \div One
  IN 2 * (y + y3 \div 3 + y5 \div 5)

\* f64::ln of a positive finite value.
RECURSIVE Ln(_)
Ln(v) ==
  IF v >= 2 * One THEN Ln2 + Ln(v \div 2)
  ELSE IF v < One THEN Ln(2 * v) - Ln2
  ELSE LnSeries(v)

\* Plausible slip: only non-positive indices short-circuit.
Degenerate_NonPositive(nn) == nn <= 0

\* n < 1.0
Degenerate(nn) == nn < One

\* 2.0 * PI * n * n.ln()
Seed(nn) == Fin((((TwoPi * nn) \div One) * Ln(nn)) \div One)

\* One pass of the loop body, lib.rs 131-135, on the value tt.  ln(0) is
\* -inf and 0 * -inf is NaN; ln of a negative is NaN; a zero log_a makes
\* 2 pi / dnt infinite, and since nt - n < 0 there, t becomes +inf; an
\* infinite t gives inf * inf - inf = NaN.
NewtonStep(tt, nn) ==
  IF tt.k # "fin" THEN NaN
  ELSE LET A == (tt.v * One) \div TwoPi
       IN IF A <= 0 THEN NaN
          ELSE LET log_a == Ln(A)
                   nt == (A * log_a) \div One - A + SevenEighths
                   dnt == log_a
               IN IF dnt = 0 THEN PosInf
                  ELSE Fin(tt.v - ((nt - nn) * ((TwoPi * One) \div dnt)) \div One)

\* lib.rs 126-129: the short-circuit, or the seed.
EstEntry ==
  /\ epc = "call"
  /\ IF Degenerate(n)
       THEN /\ epc' = "ret"
            /\ eret' = Fin(0)
            /\ UNCHANGED <<t, seeded>>
       ELSE /\ epc' = "loop"
            /\ t' = Seed(n)
            /\ seeded' = TRUE
            /\ UNCHANGED eret
  /\ UNCHANGED <<n, i, stalled>>
  /\ UNCHANGED <<fzVars, dvVars, zfVars>>

\* Plausible change: stop as soon as an update leaves t unchanged.
EstNewton_StopWhenConverged ==
  /\ epc = "loop"
  /\ i < NewtonIters
  /\ t' = NewtonStep(t, n)
  /\ stalled' = (stalled \/ t' = t)
  /\ IF t' = t
       THEN epc' = "ret" /\ eret' = t /\ i' = i
       ELSE epc' = "loop" /\ eret' = eret /\ i' = i + 1
  /\ UNCHANGED <<n, seeded>>
  /\ UNCHANGED <<fzVars, dvVars, zfVars>>

\* lib.rs 130-136: one of the 20 passes of the loop.
EstNewton ==
  /\ epc = "loop"
  /\ i < NewtonIters
  /\ t' = NewtonStep(t, n)
  /\ i' = i + 1
  /\ stalled' = (stalled \/ t' = t)
  /\ UNCHANGED <<n, seeded, epc, eret>>
  /\ UNCHANGED <<fzVars, dvVars, zfVars>>

\* lib.rs 137: the loop is over; return t.
EstReturn ==
  /\ epc = "loop"
  /\ i = NewtonIters
  /\ epc' = "ret"
  /\ eret' = t
  /\ UNCHANGED <<n, t, i, seeded, stalled>>
  /\ UNCHANGED <<fzVars, dvVars, zfVars>>

\* The indices tried: every half from -MinHalfN / 2 to MaxN.
EtInit ==
  /\ FzIdle /\ DvIdle /\ ZfIdle
  /\ n \in {(hf * One) \div 2 : hf \in (-MinHalfN)..(2 * MaxN)}
  /\ t = Fin(0) /\ i = 0
  /\ seeded = FALSE /\ stalled = FALSE
  /\ epc = "call" /\ eret = Fin(0)

EtNext == EstEntry \/ EstNewton \/ EstReturn

SpecEstimate == EtInit /\ [][EtNext]_vars /\ WF_vars(EtNext)

\* ------------------------------------------------ estimate_t: the claims
\* C5: for every n < 1, estimate_t returns exactly 0, with no seed computed
\* and no Newton update performed.
C5_ShortCircuit ==
  n < One =>
    /\ epc \in {"call", "ret"}
    /\ ~seeded /\ i = 0 /\ t = Fin(0)
    /\ epc = "ret" => eret = Fin(0)

C5_Witness == epc = "ret" /\ n = -5 * One /\ eret = Fin(0) /\ ~seeded

\* The loop starts from the seed and the call returns only with i = 20.
C6_Inv ==
  n >= One =>
    /\ epc = "loop" => seeded /\ i \in 0..20 /\ (i = 0 => t = Seed(n))
    /\ epc = "ret" => seeded /\ i = 20 /\ eret = t

\* Below 20 the next step is a Newton update, whatever it does to t; at 20
\* it is the return.
C6_Step ==
  /\ (epc = "loop" /\ i < 20) =>
       epc' = "loop" /\ i' = i + 1 /\ t' = NewtonStep(t, n)
  /\ (epc = "loop" /\ i = 20) => epc' = "ret" /\ eret' = t /\ i' = i

\* C6: for every n >= 1, estimate_t seeds t = 2 pi n ln(n) and performs
\* exactly 20 Newton updates before it returns t: an update that leaves t
\* unchanged, or a t that is no longer finite, does not end the loop, and the
\* call returns after the 20th update.
C6_ExactlyTwenty == []C6_Inv /\ [][C6_Step]_vars /\ <>(epc = "ret")

C6_Witness ==
  /\ epc = "ret" /\ n >= One /\ i = 20
  /\ stalled /\ eret.k = "fin" /\ eret.v > 0

\* -------------------------------------------------------------- derivative
\* The arithmetic is exact: a value is the fraction num / den.  evals counts
\* the calls of f.
FVals == {-2, -1, 0, 1, 2}

\* The points at which a call of order n evaluates f: n steps of +h or -h
\* away from x.
SamplePoints(xx, nn, hh) == {xx + (nn - 2 * j) * hh : j \in 0..nn}

\* Plausible slip: the two operands of the difference exchanged.
RECURSIVE Derivative_Swapped(_, _, _, _)
Derivative_Swapped(ff, xx, nn, hh) ==
  IF nn = 0
    THEN [num |-> ff[xx], den |-> 1, evals |-> 1]
    ELSE LET up == Derivative_Swapped(ff, xx + hh, nn - 1, hh)
             dn == Derivative_Swapped(ff, xx - hh, nn - 1, hh)
         IN [num |-> dn.num - up.num,
             den |-> up.den * (2 * hh),
             evals |-> up.evals + dn.evals]

\* lib.rs 31-37.  Both operands have the same denominator, so their
\* difference over 2 h is (up.num - dn.num) / (den * 2 h).
RECURSIVE Derivative(_, _, _, _)
Derivative(ff, xx, nn, hh) ==
  IF nn = 0
    THEN [num |-> ff[xx], den |-> 1, evals |-> 1]
    ELSE LET up == Derivative(ff, xx + hh, nn - 1, hh)
             dn == Derivative(ff, xx - hh, nn - 1, hh)
         IN [num |-> up.num - dn.num,
             den |-> up.den * (2 * hh),
             evals |-> up.evals + dn.evals]

DvInit ==
  /\ FzIdle /\ EtIdle /\ ZfIdle
  /\ x \in 0..MaxX
  /\ h \in 1..MaxH
  /\ ord \in 0..MaxOrder
  /\ f \in [SamplePoints(x, ord, h) -> FVals]
  /\ dpc = "call"
  /\ dret = [num |-> 0, den |-> 1]
  /\ devals = 0

\* One call of derivative(f, x, n, h).
DerivativeCall ==
  /\ dpc = "call"
  /\ LET r == Derivative(f, x, ord, h)
     IN /\ dret' = [num |-> r.num, den |-> r.den]
        /\ devals' = r.evals
  /\ dpc' = "ret"
  /\ UNCHANGED <<f, x, h, ord>>
  /\ UNCHANGED <<fzVars, etVars, zfVars>>

DvNext == DerivativeCall

SpecDerivative == DvInit /\ [][DvNext]_vars

\* ------------------------------------------------ derivative: the claims
RECURSIVE Pow(_, _)
Pow(base, e) == IF e = 0 THEN 1 ELSE base * Pow(base, e - 1)

RECURSIVE Factorial(_)
Factorial(m) == IF m = 0 THEN 1 ELSE m * Factorial(m - 1)

Binomial(m, j) == Factorial(m) \div (Factorial(j) * Factorial(m - j))

\* The sum over j = 0..upto of (-1)^j C(n, j) f(x + (n - 2 j) h).
RECURSIVE StencilSum(_, _, _, _, _)
StencilSum(ff, xx, nn, hh, upto) ==
  LET term == Pow(-1, upto) * Binomial(nn, upto) * ff[xx + (nn - 2 * upto) * hh]
  IN IF upto = 0 THEN term ELSE term + StencilSum(ff, xx, nn, hh, upto - 1)

\* C7: derivative returns for every order n >= 0 after exactly 2^n
\* evaluations of f; for n = 0 the value is f(x); for n > 0 it is the
\* difference of the order n - 1 values at x + h and x - h over 2 h, which is
\* the stencil sum over (2 h)^n.
C7_Stencil ==
  /\ dpc = "call" => ENABLED DerivativeCall
  /\ dpc = "ret" =>
       /\ devals = Pow(2, ord)
       /\ ord = 0 => dret = [num |-> f[x], den |-> 1]
       /\ ord > 0 =>
            LET up == Derivative(f, x + h, ord - 1, h)
                dn == Derivative(f, x - h, ord - 1, h)
            IN /\ up.den = dn.den
               /\ dret.num = up.num - dn.num
               /\ dret.den = up.den * 2 * h
       /\ dret.num = StencilSum(f, x, ord, h, ord)
       /\ dret.den = Pow(2 * h, ord)

C7_Witness ==
  /\ dpc = "ret" /\ ord = 3 /\ h = 2 /\ devals = 8
  /\ dret.den = 64 /\ dret.num = 8

\* ------------------------------------------------------------------ z_func
\* The value of z_func is a sum of cosines; what is modelled is which terms
\* the sum is made of.  t is a whole number, t / 2 pi is in units of 1/One.
ISqrt(m) == CHOOSE r \in 0..m : r * r <= m /\ (r + 1) * (r + 1) > m

\* (t / (2.0 * PI)).sqrt().floor() as i64
Nu(tt) == ISqrt(((tt * One * One) \div TwoPi) \div One)

\* Plausible slip: > in place of >=.
CorrectionEnabled_Strict(tm, order) == tm > order

\* terms >= 1, terms >= 2
CorrectionEnabled(tm, order) == tm >= order

\* if nu % 2 == 0 { -1.0 } else { 1.0 }
Sign(v) == IF v % 2 = 0 THEN -1 ELSE 1

\* sign * scale * c * a^e, with scale = a^(-1/4): the term c, its sign, and
\* the power of a in quarters.
Contribution(c, sg, quarters) == [c |-> c, sign |-> sg, apow |-> quarters]

ZfInit ==
  /\ FzIdle /\ EtIdle /\ DvIdle
  /\ zt \in 1..MaxZT
  /\ zterms \in 0..MaxTerms
  /\ nu = 0 /\ k = 0
  /\ mainSum = <<>> /\ mainFactor = 1 /\ sign = 0
  /\ corr = <<>> /\ dcalls = <<>>
  /\ zpc = "call"

\* lib.rs 48-52: nu, and the empty sum.
ZBegin ==
  /\ zpc = "call"
  /\ nu' = Nu(zt)
  /\ k' = 1
  /\ zpc' = "sum"
  /\ UNCHANGED <<zt, zterms, mainSum, mainFactor, sign, corr, dcalls>>
  /\ UNCHANGED <<fzVars, etVars, dvVars>>

\* lib.rs 53-57: one summand of for k in 1..=nu.
ZSumStep ==
  /\ zpc = "sum"
  /\ k <= nu
  /\ mainSum' = Append(mainSum, k)
  /\ k' = k + 1
  /\ UNCHANGED <<zt, zterms, nu, mainFactor, sign, corr, dcalls, zpc>>
  /\ UNCHANGED <<fzVars, etVars, dvVars>>

\* lib.rs 58-67: sum *= 2.0; the sign; r = sign * scale * c0.
ZLeading ==
  /\ zpc = "sum"
  /\ k > nu
  /\ mainFactor' = 2
  /\ sign' = Sign(nu)
  /\ corr' = <<Contribution("C0", Sign(nu), -1)>>
  /\ zpc' = "c1"
  /\ UNCHANGED <<zt, zterms, nu, k, mainSum, dcalls>>
  /\ UNCHANGED <<fzVars, etVars, dvVars>>

\* lib.rs 69-73: if terms >= 1, C1 from the third derivative of psi.
ZFirst ==
  /\ zpc = "c1"
  /\ IF CorrectionEnabled(zterms, 1)
       THEN /\ dcalls' = Append(dcalls, 3)
            /\ corr' = Append(corr, Contribution("C1", sign, -3))
       ELSE UNCHANGED <<dcalls, corr>>
  /\ zpc' = "c2"
  /\ UNCHANGED <<zt, zterms, nu, k, mainSum, mainFactor, sign>>
  /\ UNCHANGED <<fzVars, etVars, dvVars>>

\* lib.rs 75-82: if terms >= 2, C2 from the second and sixth derivatives;
\* return sum + r.
ZSecond ==
  /\ zpc = "c2"
  /\ IF CorrectionEnabled(zterms, 2)
       THEN /\ dcalls' = dcalls \o <<2, 6>>
            /\ corr' = Append(corr, Contribution("C2", sign, -5))
       ELSE UNCHANGED <<dcalls, corr>>
  /\ zpc' = "ret"
  /\ UNCHANGED <<zt, zterms, nu, k, mainSum, mainFactor, sign>>
  /\ UNCHANGED <<fzVars, etVars, dvVars>>

ZfNext == ZBegin \/ ZSumStep \/ ZLeading \/ ZFirst \/ ZSecond

SpecZFunc == ZfInit /\ [][ZfNext]_vars

\* ---------------------------------------------------- z_func: the claims
\* The nu of the ordinate, from its definition: nu^2 <= t / 2 pi < (nu + 1)^2.
TrueNu ==
  CHOOSE r \in 0..zt :
    r * r * TwoPi <= zt * One /\ zt * One < (r + 1) * (r + 1) * TwoPi

Labels == [j \in 1..Len(corr) |-> corr[j].c]

\* C9: terms = 0 adds C0 alone and never calls derivative; terms = 1 adds C0
\* and C1 with one call of order 3; terms = 2 adds C0, C1 and C2 with calls of
\* orders 3, 2 and 6; every contribution carries the sign -1 for even nu and
\* +1 for odd nu; the main sum has the summands k = 1..nu whatever terms is.
C9_Cumulative ==
  /\ zpc \in {"call", "sum"} => corr = <<>> /\ dcalls = <<>>
  /\ zpc = "ret" =>
       /\ zterms = 0 => Labels = <<"C0">> /\ dcalls = <<>>
       /\ zterms = 1 => Labels = <<"C0", "C1">> /\ dcalls = <<3>>
       /\ zterms = 2 => Labels = <<"C0", "C1", "C2">> /\ dcalls = <<3, 2, 6>>
       /\ \A j \in 1..Len(corr) :
            corr[j].sign = (IF TrueNu % 2 = 0 THEN -1 ELSE 1)
       /\ mainSum = [j \in 1..TrueNu |-> j]
       /\ Len(mainSum) = TrueNu

C9_Witness ==
  /\ zpc = "ret" /\ zterms = 2 /\ Len(mainSum) = 3
  /\ Len(corr) = 3 /\ corr[3].sign = 1

\* --------------------------------------------------------------- find_zero
\* Plausible slip: >= in place of >.
ProductPositive_Ge(p, q) == p * q >= 0

\* Plausible slip: the sign test inverted.
ProductPositive_Inv(p, q) == p * q < 0

\* za * zb > 0.0
ProductPositive(p, q) == p * q > 0

\* (a + b) / 2.0: exact when a + b is even, else the tie goes to the even
\* neighbour.
Mid(p, q) ==
  LET s == p + q
      lo == s \div 2
  IN IF s % 2 = 0 THEN lo
     ELSE IF lo % 2 = 0 THEN lo ELSE lo + 1

MidExact(p, q) == (p + q) % 2 = 0

\* Plausible slip: <= in place of <.
WidthBelowTol_Le(p, q, tl) == TolDen * (q - p) <= tl

\* Plausible change: the width taken as |b - a|.
WidthBelowTol_Abs(p, q, tl) == TolDen * Abs(q - p) < tl

\* (b - a) < tol
WidthBelowTol(p, q, tl) == TolDen * (q - p) < tl

Bump(c, cap) == IF c < cap THEN c + 1 ELSE c

FzInitOver(V) ==
  /\ EtIdle /\ DvIdle /\ ZfIdle
  /\ Z \in [Grid -> V]
  /\ a \in Grid /\ b \in Grid
  /\ tol \in Tols
  /\ za = 0 /\ zb = 0
  /\ pc = "entry"
  /\ result = Pending
  /\ a0 = a /\ b0 = b
  /\ pa = a /\ pb = b
  /\ iter = 0 /\ evals = 0
  /\ exact = TRUE

FzInit == FzInitOver(ZVals)

\* lib.rs 97-101: evaluate both endpoints; same sign: return None.
Entry ==
  /\ pc = "entry"
  /\ za' = Z[a]
  /\ zb' = Z[b]
  /\ IF ProductPositive(Z[a], Z[b])
       THEN pc' = "none" /\ result' = None
       ELSE pc' = "loop" /\ result' = result
  /\ UNCHANGED <<Z, a, b, tol, a0, b0, pa, pb, iter, evals, exact>>
  /\ UNCHANGED <<etVars, dvVars, zfVars>>

\* lib.rs 103-107: the midpoint is evaluated, then the width is tested.
LoopReturn ==
  /\ pc = "loop"
  /\ WidthBelowTol(a, b, tol)
  /\ pc' = "done"
  /\ result' = Some(Mid(a, b))
  /\ evals' = Bump(evals, IterCap + 1)
  /\ UNCHANGED <<Z, a, b, tol, za, zb, a0, b0, pa, pb, iter, exact>>
  /\ UNCHANGED <<etVars, dvVars, zfVars>>

\* Plausible slip: a is moved and the cached za is not refreshed.
LoopMoveA_StaleCache ==
  /\ pc = "loop"
  /\ ~WidthBelowTol(a, b, tol)
  /\ ProductPositive(za, Z[Mid(a, b)])
  /\ a' = Mid(a, b)
  /\ pa' = a /\ pb' = b
  /\ iter' = Bump(iter, IterCap)
  /\ evals' = Bump(evals, IterCap + 1)
  /\ exact' = (exact /\ MidExact(a, b))
  /\ UNCHANGED <<Z, b, tol, za, zb, pc, result, a0, b0>>
  /\ UNCHANGED <<etVars, dvVars, zfVars>>

\* lib.rs 108-110: the midpoint shares za's sign: a = mid; za = zm.
LoopMoveA ==
  /\ pc = "loop"
  /\ ~WidthBelowTol(a, b, tol)
  /\ ProductPositive(za, Z[Mid(a, b)])
  /\ a' = Mid(a, b)
  /\ za' = Z[Mid(a, b)]
  /\ pa' = a /\ pb' = b
  /\ iter' = Bump(iter, IterCap)
  /\ evals' = Bump(evals, IterCap + 1)
  /\ exact' = (exact /\ MidExact(a, b))
  /\ UNCHANGED <<Z, b, tol, zb, pc, result, a0, b0>>
  /\ UNCHANGED <<etVars, dvVars, zfVars>>

\* lib.rs 111-114: otherwise b = mid; zb = zm.
LoopMoveB ==
  /\ pc = "loop"
  /\ ~WidthBelowTol(a, b, tol)
  /\ ~ProductPositive(za, Z[Mid(a, b)])
  /\ b' = Mid(a, b)
  /\ zb' = Z[Mid(a, b)]
  /\ pa' = a /\ pb' = b
  /\ iter' = Bump(iter, IterCap)
  /\ evals' = Bump(evals, IterCap + 1)
  /\ exact' = (exact /\ MidExact(a, b))
  /\ UNCHANGED <<Z, a, tol, za, pc, result, a0, b0>>
  /\ UNCHANGED <<etVars, dvVars, zfVars>>

FzNext == Entry \/ LoopReturn \/ LoopMoveA \/ LoopMoveB

\* ------------------------------------------------- find_zero: the claims
\* find_zero has left its entry block.
Started == pc \in {"loop", "done", "none"}

\* Grid positions of the sign changes of Z inside lo..hi: a zero at g, or
\* a flip between g and g + 1.
ZeroAt(g) == Z[g] = 0
FlipAfter(g) == g + 1 \in Grid /\ Z[g] * Z[g + 1] < 0

\* The distance (in spacings) from m to the sign change at or after g: to a
\* zero it is |m - g|; a flip lies somewhere between g and g + 1, so it is
\* at least the distance to the nearer and at most that to the farther one.
DistNear(m, g) == Min(Abs(m - g), Abs(m - (g + 1)))
DistFar(m, g) == Max(Abs(m - g), Abs(m - (g + 1)))

\* Some sign change is certainly within r / (2 * TolDen) spacings of m.
SurelyWithin(m, r) ==
  \E g \in Grid :
    \/ ZeroAt(g) /\ 2 * TolDen * Abs(m - g) <= r
    \/ FlipAfter(g) /\ 2 * TolDen * DistFar(m, g) <= r

\* Some sign change is possibly within r / (2 * TolDen) spacings of m.
PossiblyWithin(m, r) ==
  \E g \in Grid :
    \/ ZeroAt(g) /\ 2 * TolDen * Abs(m - g) <= r
    \/ FlipAfter(g) /\ 2 * TolDen * DistNear(m, g) <= r

\* C1: find_zero returns None exactly when Z(a) * Z(b) > 0, and then without
\* evaluating a midpoint; otherwise it enters the loop, and whatever it
\* returns is Some.
C1_NoneIffSameSign ==
  /\ Started => ((pc = "none") <=> (Z[a0] * Z[b0] > 0))
  /\ pc = "none" => result = None /\ evals = 0 /\ iter = 0
  /\ pc = "loop" => result = Pending
  /\ pc = "done" => result.tag = "Some" /\ evals >= 1

C1_Witness == pc = "none" /\ result = None /\ a0 < b0 /\ Z[a0] * Z[b0] > 0

\* C2 as stated: for a < b and endpoint values not sharing a sign, the value
\* returned is inside [a0, b0], is the midpoint of a sub-bracket narrower
\* than tol whose endpoint values do not share a sign, and is within tol / 2
\* of a sign change.
C2_Original ==
  (pc = "done" /\ a0 < b0 /\ tol > 0) =>
    /\ a0 <= result.val /\ result.val <= b0
    /\ a0 <= a /\ a <= b /\ b <= b0
    /\ 2 * result.val = a + b
    /\ TolDen * (b - a) < tol
    /\ Z[a] * Z[b] <= 0
    /\ PossiblyWithin(result.val, tol)

\* C2 amended: the value returned is the midpoint rounded to the grid, and it
\* is within b' - a' < tol of a sign change; within tol / 2 when the midpoint
\* is exact.
C2_RoundedMidpoint ==
  (pc = "done" /\ a0 < b0 /\ tol > 0) =>
    /\ a0 <= result.val /\ result.val <= b0
    /\ a0 <= a /\ a <= b /\ b <= b0
    /\ a <= result.val /\ result.val <= b
    /\ 2 * result.val \in {a + b - 1, a + b, a + b + 1}
    /\ TolDen * (b - a) < tol
    /\ Z[a] * Z[b] <= 0
    /\ SurelyWithin(result.val, 2 * TolDen * (b - a))
    /\ 2 * result.val = a + b => SurelyWithin(result.val, tol)

C2_Witness ==
  /\ pc = "done" /\ a0 < b0 /\ iter >= 2
  /\ 2 * result.val # a + b
  /\ ~PossiblyWithin(result.val, tol)

\* 2^k
RECURSIVE Pow2(_)
Pow2(e) == IF e = 0 THEN 1 ELSE 2 * Pow2(e - 1)

\* The least e >= e0 with w / 2^e < tol.
RECURSIVE LeastHalvings(_, _, _)
LeastHalvings(w, tl, e) ==
  IF TolDen * w < tl * Pow2(e) THEN e ELSE LeastHalvings(w, tl, e + 1)

\* With exact midpoints the width after iter iterations is (b0 - a0) / 2^iter,
\* and the call returns at the first width below tol.
C3_Inv ==
  (Started /\ pc # "none" /\ a0 < b0 /\ tol > 0 /\ exact) =>
    /\ (b - a) * Pow2(iter) = b0 - a0
    /\ iter <= LeastHalvings(b0 - a0, tol, 0)
    /\ pc = "done" => iter = LeastHalvings(b0 - a0, tol, 0)
    /\ pc = "loop" => ENABLED (LoopReturn \/ LoopMoveA \/ LoopMoveB)
    /\ pc = "loop" /\ TolDen * (b - a) < tol => ENABLED LoopReturn

\* A non-returning iteration with an exact midpoint replaces one endpoint by
\* the midpoint and halves the width.
C3_Step ==
  (pc = "loop" /\ pc' = "loop" /\ a0 < b0 /\ tol > 0 /\ exact') =>
    /\ 2 * (b' - a') = b - a
    /\ \/ a' # a /\ b' = b /\ 2 * a' = a + b
       \/ b' # b /\ a' = a /\ 2 * b' = a + b

\* Every call with a < b and tol > 0 returns, or computes a midpoint that is
\* not exact.
C3_Terminates == (a0 < b0 /\ tol > 0) => <>(pc \in {"none", "done"} \/ ~exact)

\* C3: for a < b, endpoint values not sharing a sign, and every midpoint
\* that replaced an endpoint exact: find_zero terminates, each non-returning
\* iteration replaces one endpoint by the midpoint and halves the width
\* exactly, and find_zero returns at the first width below tol, after the
\* least k with (b0 - a0) / 2^k < tol.
C3_ExactHalving == []C3_Inv /\ [][C3_Step]_vars /\ C3_Terminates

C3_Witness == pc = "done" /\ a0 < b0 /\ tol > 0 /\ exact /\ iter = 2

\* C4 as stated: with a < b, endpoint values not sharing a sign and tol not
\* above the grid spacing, find_zero never returns.
C4_Original == ~(pc = "done" /\ a0 < b0 /\ tol <= TolDen)

\* The bracket is one spacing wide and stays so: the midpoint rounds to an
\* endpoint that the update leaves in place.
Stuck ==
  /\ pc = "loop" /\ a0 < b0 /\ tol <= TolDen
  /\ \/ b - a = 1 /\ ~(a % 2 = 0 /\ Z[a] = 0)
     \/ b = a /\ tol = 0

\* With tol not above the spacing a call returns only from a bracket that has
\* collapsed onto an exact zero at an even grid point.
C4_Inv ==
  (a0 < b0 /\ tol <= TolDen) =>
    /\ pc = "loop" => b - a >= 1 \/ (a = b /\ Z[a] = 0)
    /\ pc = "done" => tol > 0 /\ a = b /\ Z[a] = 0 /\ a % 2 = 0 /\ result = Some(a)

\* A wider bracket shrinks, but not below one spacing; a stuck one stays.
C4_Step ==
  /\ Stuck => pc' = "loop" /\ a' = a /\ b' = b /\ TolDen * (b' - a') >= tol
  /\ (pc = "loop" /\ a0 < b0 /\ tol <= TolDen /\ b - a >= 2) =>
       1 <= b' - a' /\ b' - a' < b - a

\* C4 amended: with a < b, endpoint values not sharing a sign and tol not
\* above the spacing, the width shrinks to one spacing and no further: the
\* midpoint then is an endpoint, and find_zero never returns, unless that
\* midpoint is the left endpoint a and Z(a) is exactly 0: then b is moved
\* onto a and, when tol > 0, find_zero returns Some(a).
C4_StuckUnlessZero == []C4_Inv /\ [][C4_Step]_vars

C4_Witness ==
  /\ Stuck /\ tol > 0 /\ b - a = 1
  /\ iter = IterCap /\ b0 - a0 >= 4 /\ pa = a /\ pb = b

\* The state at the start of an iteration.
C8_Inv ==
  pc = "loop" =>
    /\ za = Z[a]
    /\ Z[a] * Z[b] <= 0
    /\ Min(pa, pb) <= Min(a, b) /\ Max(a, b) <= Max(pa, pb)

\* The update of a non-returning iteration.
C8_Step ==
  (pc = "loop" /\ pc' = "loop") =>
    LET m == Mid(a, b)
    IN IF Z[a] * Z[m] > 0
         THEN a' = m /\ b' = b
         ELSE b' = m /\ a' = a

\* C8: at the start of every iteration za is Z at the left endpoint, the
\* endpoint values do not share a sign, and the bracket lies in the one
\* before; a step moves a to the midpoint when Z(a) * Z(mid) > 0 and b
\* otherwise, and leaves the other endpoint alone.
C8_LoopInvariant == []C8_Inv /\ [][C8_Step]_vars

C8_Witness == pc = "loop" /\ iter >= 2 /\ a # a0 /\ b # b0 /\ za = Z[a]

\* C10: with endpoint values not sharing a sign and a reversed bracket or an
\* initial width below tol, find_zero evaluates one midpoint and returns
\* Some((a + b) / 2) with the bracket untouched.
C10_ReturnsAtOnce ==
  (Started /\ pc # "none" /\ (a0 > b0 \/ TolDen * (b0 - a0) < tol)) =>
    /\ a = a0 /\ b = b0 /\ iter = 0
    /\ pc = "loop" => evals = 0 /\ ENABLED LoopReturn /\ ~ENABLED (LoopMoveA \/ LoopMoveB)
    /\ pc = "done" => evals = 1 /\ result = Some(Mid(a0, b0))

\* A reversed bracket whose returned value is farther than tol from every
\* sign change of Z.
C10_Witness ==
  /\ pc = "done" /\ a0 > b0 + 1
  /\ result = Some(Mid(a0, b0))
  /\ ~PossiblyWithin(result.val, 2 * tol)

Init == FzInit
Next == FzNext
Spec == Init /\ [][Next]_vars

\* The program is sequential: a step that can be taken is taken.  Which
\* branch a step takes depends on the signs of Z alone, so the calls tried
\* are those on the sign tables.
FairInit == FzInitOver(SignVals)
FairSpec == FairInit /\ [][Next]_vars /\ WF_vars(Next)

=============================================================================
